---- MODULE Spec2Model ----
(***************************************************************************)
(* Model of FolderMonitor (src/src/folder_monitor.py): a watch-list of     *)
(* folder paths with byte limits, recursive size measurement, limit        *)
(* evaluation and alert recording, running against a file system that an   *)
(* outside party changes between (and, for the directory walk, during)     *)
(* the monitor's operations.                                               *)
(***************************************************************************)
EXTENDS Integers, Sequences, FiniteSets, TLC

VARIABLES
    fs,                 \* the file system: node -> [kind, size]
    monitoring_config,  \* self.monitoring_config: insertion-ordered dict, as a
                        \* sequence of [path, limit] with pairwise distinct paths
    alerts_triggered,   \* self.alerts_triggered: list of alert records
    last,               \* the most recent event: the call, its arguments, what it
                        \* returned and what it printed
    walk,               \* a get_folder_size call in progress, one os.walk step at a time
    loop                \* a monitor_continuously call in progress: where it stands,
                        \* its check_interval and what it has done so far

vars == <<fs, monitoring_config, alerts_triggered, last, walk, loop>>

-----------------------------------------------------------------------------
(* Bounds of the explored input space *)

\* largest size_limit_mb handed to add_folder_to_monitor
MaxLimitMb == 1

\* monitor_once is not explored once the alert history would pass this length
MaxAlerts == 2

\* iterations of the monitor_continuously loop that are explored
MaxIter == 2

\* how far on either side of a change of unit the sizes given to format_size go
Near == 6

MB == 1024 * 1024

\* size_limit_mb arguments tried: the positive integers of the documented contract
LimitMbInputs == 1 .. MaxLimitMb

\* sizes a file is written with
FileSizes == {MB, 2 * MB}

-----------------------------------------------------------------------------
(* The file system *)

Roots == {"/a", "/b"}

\* directory entries in the order a listing returns them
Entries(d) ==
    CASE d = "/a"     -> <<"/a/f", "/a/s">>
      [] d = "/a/s"   -> <<"/a/s/g", "/a/s/t">>
      [] d = "/a/s/t" -> <<"/a/s/t/h">>
      [] d = "/b"     -> <<"/b/f">>
      [] OTHER        -> <<>>

Nodes == {"/a", "/a/f", "/a/s", "/a/s/g", "/a/s/t", "/a/s/t/h", "/b", "/b/f"}

\* the nodes the environment of the engine specification touches
FlatNodes == {"/a", "/a/f", "/b", "/b/f"}

\* the nodes the environment of the walk specification touches
DeepNodes == {"/a", "/a/f", "/a/s", "/a/s/g", "/a/s/t", "/a/s/t/h"}

Range(s) == {s[i] : i \in 1 .. Len(s)}

IsChild(n, d) == n \in Range(Entries(d))

HasParent(n) == \E d \in Nodes : IsChild(n, d)

ParentOf(n) == CHOOSE d \in Nodes : IsChild(n, d)

RECURSIVE IsUnder(_, _)
\* n lies strictly below d in the tree
IsUnder(n, d) ==
    IF ~HasParent(n) THEN FALSE
    ELSE IF ParentOf(n) = d THEN TRUE ELSE IsUnder(ParentOf(n), d)

\* names that may hold a regular file / a directory
FileNames == Roots \cup {n \in Nodes : Entries(n) = <<>>}
DirNames  == Roots \cup {n \in Nodes : Entries(n) # <<>>}

NoEntry == [kind |-> "none", size |-> 0]
DirEntry == [kind |-> "dir", size |-> 0]
FileEntry(sz) == [kind |-> "file", size |-> sz]

EmptyFs == [n \in Nodes |-> NoEntry]

os_path_exists(f, p) == f[p].kind # "none"
os_path_isdir(f, p) == f[p].kind = "dir"
os_path_getsize(f, p) == f[p].size

\* what os.walk hands out for one directory: the non-directories and the directories
filenames(f, d) == SelectSeq(Entries(d), LAMBDA n : f[n].kind = "file")
dirnames(f, d) == SelectSeq(Entries(d), LAMBDA n : f[n].kind = "dir")

ParentIsDir(f, n) == IF n \in Roots THEN TRUE ELSE f[ParentOf(n)].kind = "dir"

-----------------------------------------------------------------------------
(* The environment: another process writing, creating and removing entries *)

NoWalk == [pc |-> "idle", path |-> "", stack |-> <<>>, files |-> <<>>, total |-> 0,
           listed |-> {}, skipped |-> {}, seen |-> {}, disturbed |-> FALSE]

\* no monitor_continuously call is running
NoLoop ==
    [pc |-> "idle", interval |-> 0, notices |-> 0, checks |-> 0, sleeps |-> <<>>,
     stopped_at |-> "", start_config |-> <<>>, start_alerts |-> <<>>]

EnvEvent == [op |-> "env", path |-> "", mb |-> 0, ret |-> "none", out |-> <<>>, exc |-> ""]

\* a running walk notes that the tree changed under it; a finished one is forgotten
Disturb(w) == IF w.pc \in {"idle", "done"} THEN NoWalk ELSE [w EXCEPT !.disturbed = TRUE]

FsWriteFile(n, sz) ==
    /\ n \in FileNames
    /\ ParentIsDir(fs, n)
    /\ fs[n].kind \in {"none", "file"}
    /\ fs[n] # FileEntry(sz)
    \* a file standing where a folder is expected: nothing reads its size
    /\ n \in Roots => sz = MB
    /\ fs' = [fs EXCEPT ![n] = FileEntry(sz)]
    /\ last' = EnvEvent
    /\ walk' = Disturb(walk)
    /\ UNCHANGED <<monitoring_config, alerts_triggered, loop>>

FsMkdir(n) ==
    /\ n \in DirNames
    /\ ParentIsDir(fs, n)
    /\ fs[n].kind = "none"
    /\ fs' = [fs EXCEPT ![n] = DirEntry]
    /\ last' = EnvEvent
    /\ walk' = Disturb(walk)
    /\ UNCHANGED <<monitoring_config, alerts_triggered, loop>>

\* rm -r: the entry goes with everything below it
FsRemove(n) ==
    /\ fs[n].kind # "none"
    /\ fs' = [m \in Nodes |-> IF m = n \/ IsUnder(m, n) THEN NoEntry ELSE fs[m]]
    /\ last' = EnvEvent
    /\ walk' = Disturb(walk)
    /\ UNCHANGED <<monitoring_config, alerts_triggered, loop>>

-----------------------------------------------------------------------------
(* The insertion-ordered dict self.monitoring_config *)

Keys(cfg) == {cfg[i].path : i \in 1 .. Len(cfg)}

HasKey(cfg, p) == p \in Keys(cfg)

IndexOf(cfg, p) == CHOOSE i \in 1 .. Len(cfg) : cfg[i].path = p

Lookup(cfg, p) == cfg[IndexOf(cfg, p)].limit

\* every assignment taken for a new key
DictSet_append(cfg, p, v) == Append(cfg, [path |-> p, limit |-> v])

\* d[p] = v: an existing key keeps its place, a new key goes last
DictSet(cfg, p, v) ==
    IF HasKey(cfg, p)
    THEN [cfg EXCEPT ![IndexOf(cfg, p)] = [path |-> p, limit |-> v]]
    ELSE Append(cfg, [path |-> p, limit |-> v])

\* the oldest entry dropped, whichever key was asked for
DictDel_first(cfg, p) == Tail(cfg)

\* del d[p]
DictDel(cfg, p) == SelectSeq(cfg, LAMBDA e : e.path # p)

-----------------------------------------------------------------------------
(* get_folder_size, run without interference from the environment *)

Ok(n) == [ok |-> TRUE, size |-> n, err |-> ""]
Raise(e) == [ok |-> FALSE, size |-> 0, err |-> e]

RECURSIVE sum_files(_, _, _)
\* the inner loop over one directory's filenames
sum_files(f, files, total) ==
    IF files = <<>> THEN total
    ELSE sum_files(f, Tail(files),
                   IF os_path_exists(f, Head(files))
                   THEN total + os_path_getsize(f, Head(files))
                   ELSE total)

RECURSIVE os_walk(_, _, _)
\* the outer loop: os.walk top-down, a directory's files before its subdirectories
os_walk(f, stack, total) ==
    IF stack = <<>> THEN total
    ELSE os_walk(f, dirnames(f, Head(stack)) \o Tail(stack),
                 sum_files(f, filenames(f, Head(stack)), total))

get_folder_size(f, folder_path) ==
    IF ~os_path_exists(f, folder_path) THEN Raise("does not exist")
    ELSE IF ~os_path_isdir(f, folder_path) THEN Raise("is not a directory")
    ELSE Ok(os_walk(f, <<folder_path>>, 0))

-----------------------------------------------------------------------------
(* format_size *)

Units == <<"B", "KB", "MB", "GB", "TB">>

RECURSIVE Times(_, _, _)
\* a * r / den for 0 <= r < den, as whole part q and remainder r over den, by doubling:
\* the product a * r itself is never formed
Times(a, r, den) ==
    IF a = 0 THEN [q |-> 0, r |-> 0]
    ELSE LET half == Times(a \div 2, r, den)
             twice == [q |-> 2 * half.q + (2 * half.r) \div den, r |-> (2 * half.r) % den]
         IN  IF a % 2 = 0 THEN twice
             ELSE [q |-> twice.q + (twice.r + r) \div den, r |-> (twice.r + r) % den]

\* q + r / den to the nearest integer, ties to even, as "%.2f" rounds a binary float
\* that holds the value exactly
RoundHalfEven(q, r, den) ==
    IF 2 * r < den THEN q
    ELSE IF 2 * r > den THEN q + 1
    ELSE IF q % 2 = 0 THEN q ELSE q + 1

\* the number f"{num/den:.2f}" prints, in hundredths, for num >= 0
Hundredths(num, den) ==
    LET cents == Times(100, num % den, den)
    IN  RoundHalfEven(100 * (num \div den) + cents.q, cents.r, den)

Pad2(n) == IF n < 10 THEN "0" \o ToString(n) ELSE ToString(n)

\* f"{num/den:.2f}"
Fixed2(num, den) ==
    LET h == Hundredths(IF num < 0 THEN -num ELSE num, den)
    IN  (IF num < 0 THEN "-" ELSE "") \o
        ToString(h \div 100) \o "." \o Pad2(h % 100)

RECURSIVE format_loop_decimal(_, _, _)
\* the units taken as powers of 1000
format_loop_decimal(size_bytes, den, k) ==
    IF k > Len(Units) THEN [num |-> size_bytes, den |-> den, unit |-> "PB"]
    ELSE IF size_bytes \div den < 1000
    THEN [num |-> size_bytes, den |-> den, unit |-> Units[k]]
    ELSE format_loop_decimal(size_bytes, den * 1000, k + 1)

RECURSIVE format_loop(_, _, _)
\* lines 116-120 from the k-th pass of the loop on, the value being size_bytes / den
\* after k - 1 divisions by 1024.0: the value and the unit that are printed
format_loop(size_bytes, den, k) ==
    IF k > Len(Units) THEN [num |-> size_bytes, den |-> den, unit |-> "PB"]
    ELSE IF size_bytes \div den < 1024
    THEN [num |-> size_bytes, den |-> den, unit |-> Units[k]]
    ELSE format_loop(size_bytes, den * 1024, k + 1)

\* lines 118, 120: f"{size_bytes:.2f} {unit}"
format_text(v) == Fixed2(v.num, v.den) \o " " \o v.unit

format_size(size_bytes) == format_text(format_loop(size_bytes, 1, 1))

\* format_size(size_mb * 1024 * 1024) for size_mb >= 1: the first two passes of the loop
\* divide twice and leave size_mb, which the third pass is entered with
format_size_of_mb(size_mb) == format_text(format_loop(size_mb, 1, 3))

-----------------------------------------------------------------------------
(* check_folder_limits *)

\* the excess taken the other way round
Violation_limit_minus_size(folder_path, current_size, size_limit) ==
    [folder_path |-> folder_path,
     current_size |-> current_size,
     size_limit |-> size_limit,
     current_size_formatted |-> format_size(current_size),
     size_limit_formatted |-> format_size(size_limit),
     excess_size |-> size_limit - current_size,
     excess_size_formatted |-> format_size(size_limit - current_size)]

\* lines 137-145
Violation(folder_path, current_size, size_limit) ==
    [folder_path |-> folder_path,
     current_size |-> current_size,
     size_limit |-> size_limit,
     current_size_formatted |-> format_size(current_size),
     size_limit_formatted |-> format_size(size_limit),
     excess_size |-> current_size - size_limit,
     excess_size_formatted |-> format_size(current_size - size_limit)]

\* the comparison taken for "not below the limit"
OverLimit_or_equal(current_size, size_limit) == current_size >= size_limit

\* line 136: current_size > size_limit
OverLimit(current_size, size_limit) == current_size > size_limit

\* the exceptions get_folder_size raises, all of class OSError (lines 88, 90)
OSErrors == {"does not exist", "is not a directory"}

\* a handler that takes the missing folder only
check_except_missing_only(exc) == exc = "does not exist"

\* line 148: except OSError
check_except_OSError(exc) == exc \in OSErrors

RECURSIVE check_loop_abort(_, _, _, _)
\* the try placed around the loop: the first folder that fails ends the pass
check_loop_abort(cfg, f, i, acc) ==
    IF i > Len(cfg) THEN acc
    ELSE LET folder_path == cfg[i].path
             size_limit == cfg[i].limit
             measured == get_folder_size(f, folder_path)
         IN  IF ~measured.ok
             THEN [acc EXCEPT !.out = Append(@, "Error checking folder " \o folder_path)]
             ELSE check_loop_abort(cfg, f, i + 1,
                      IF OverLimit(measured.size, size_limit)
                      THEN [acc EXCEPT !.violations =
                               Append(@, Violation(folder_path, measured.size, size_limit))]
                      ELSE acc)

RECURSIVE check_loop(_, _, _, _)
\* the loop over monitoring_config.items() from entry i on; acc holds the
\* violations list, the lines printed so far and the exception, if any, that
\* left the loop uncaught
check_loop(cfg, f, i, acc) ==
    IF i > Len(cfg) THEN acc
    ELSE LET folder_path == cfg[i].path
             size_limit == cfg[i].limit
             measured == get_folder_size(f, folder_path)
         IN  IF ~measured.ok
             THEN IF check_except_OSError(measured.err)
                  THEN check_loop(cfg, f, i + 1,
                           [acc EXCEPT !.out =
                               Append(@, "Error checking folder " \o folder_path)])
                  ELSE [acc EXCEPT !.raised = measured.err]
             ELSE check_loop(cfg, f, i + 1,
                      IF OverLimit(measured.size, size_limit)
                      THEN [acc EXCEPT !.violations =
                               Append(@, Violation(folder_path, measured.size, size_limit))]
                      ELSE acc)

check_run(cfg, f) ==
    check_loop(cfg, f, 1, [violations |-> <<>>, out |-> <<>>, raised |-> ""])

check_folder_limits(cfg, f) == check_run(cfg, f).violations

-----------------------------------------------------------------------------
(* trigger_alert; the record's timestamp and message come from the wall    *)
(* clock and the violation's formatted fields and are not kept here        *)

Alert(violation) == [violation |-> violation]

\* the record put at the front of the history
trigger_alert_prepend(alerts, violation) == <<Alert(violation)>> \o alerts

trigger_alert(alerts, violation) == Append(alerts, Alert(violation))

RECURSIVE trigger_all_new_folders(_, _)
\* no second alert for a folder that has one in the history
trigger_all_new_folders(alerts, violations) ==
    IF violations = <<>> THEN alerts
    ELSE trigger_all_new_folders(
             IF \E i \in 1 .. Len(alerts) :
                    alerts[i].violation.folder_path = Head(violations).folder_path
             THEN alerts
             ELSE trigger_alert(alerts, Head(violations)),
             Tail(violations))

RECURSIVE trigger_all(_, _)
\* for violation in violations: self.trigger_alert(violation)
trigger_all(alerts, violations) ==
    IF violations = <<>> THEN alerts
    ELSE trigger_all(trigger_alert(alerts, Head(violations)), Tail(violations))

-----------------------------------------------------------------------------
(* get_monitoring_status *)

\* a / b as the fraction num / den; dividing by zero raises
true_div(a, b) ==
    IF b = 0 THEN [exc |-> "ZeroDivisionError", num |-> 0, den |-> 1]
    ELSE [exc |-> "", num |-> a, den |-> b]

\* the percentage computed whatever the limit
usage_percentage_unguarded(current_size, size_limit) ==
    LET q == true_div(current_size, size_limit)
    IN  [q EXCEPT !.num = @ * 100]

\* line 240: (current_size / size_limit) * 100 if size_limit > 0 else 0
usage_percentage(current_size, size_limit) ==
    IF size_limit > 0
    THEN LET q == true_div(current_size, size_limit)
         IN  [q EXCEPT !.num = @ * 100]
    ELSE [exc |-> "", num |-> 0, den |-> 1]

\* a folder exactly at its limit shown as over it
folder_info_at_limit(folder_path, current_size, size_limit) ==
    [path |-> folder_path,
     current_size |-> current_size,
     current_size_formatted |-> format_size(current_size),
     size_limit |-> size_limit,
     size_limit_formatted |-> format_size(size_limit),
     usage_percentage |-> usage_percentage(current_size, size_limit),
     is_over_limit |-> current_size >= size_limit]

\* lines 234-242
folder_info(folder_path, current_size, size_limit) ==
    [path |-> folder_path,
     current_size |-> current_size,
     current_size_formatted |-> format_size(current_size),
     size_limit |-> size_limit,
     size_limit_formatted |-> format_size(size_limit),
     usage_percentage |-> usage_percentage(current_size, size_limit),
     is_over_limit |-> current_size > size_limit]

\* a folder that cannot be measured shown as an empty one
error_info_as_empty(folder_path, exc) == folder_info(folder_path, 0, 0)

\* lines 245-248
error_info(folder_path, exc) == [path |-> folder_path, error |-> exc]

\* line 244: except OSError
status_except_OSError(exc) == exc \in OSErrors

RECURSIVE status_loop(_, _, _, _)
\* the loop of lines 231-248 from entry i on; acc holds status['folders'] and the
\* exception, if any, that left the loop uncaught
status_loop(cfg, f, i, acc) ==
    IF i > Len(cfg) THEN acc
    ELSE LET folder_path == cfg[i].path
             size_limit == cfg[i].limit
             measured == get_folder_size(f, folder_path)
             info == folder_info(folder_path, measured.size, size_limit)
             exc == IF ~measured.ok THEN measured.err ELSE info.usage_percentage.exc
         IN  IF exc = ""
             THEN status_loop(cfg, f, i + 1, [acc EXCEPT !.folders = Append(@, info)])
             ELSE IF status_except_OSError(exc)
             THEN status_loop(cfg, f, i + 1,
                      [acc EXCEPT !.folders = Append(@, error_info(folder_path, exc))])
             ELSE [acc EXCEPT !.raised = exc]

status_run(cfg, f) == status_loop(cfg, f, 1, [folders |-> <<>>, raised |-> ""])

\* the total counting the folders that could be measured only
get_monitoring_status_measured_only(cfg, alerts, f) ==
    [total_folders_monitored |->
         Len(SelectSeq(status_run(cfg, f).folders, LAMBDA info : "error" \notin DOMAIN info)),
     folders |-> status_run(cfg, f).folders,
     total_alerts_triggered |-> Len(alerts)]

get_monitoring_status(cfg, alerts, f) ==
    [total_folders_monitored |-> Len(cfg),
     folders |-> status_run(cfg, f).folders,
     total_alerts_triggered |-> Len(alerts)]

-----------------------------------------------------------------------------
(* The operations of the engine, each one call from start to return *)

\* a call that returned: exc is empty
Event(op, path, mb, ret, out) ==
    [op |-> op, path |-> path, mb |-> mb, ret |-> ret, out |-> out, exc |-> ""]

\* a call ended by an exception that nothing inside it caught
Thrown(op, exc, out) ==
    [op |-> op, path |-> "", mb |-> 0, ret |-> "none", out |-> out, exc |-> exc]

\* add_folder_to_monitor without the os.path.isdir test of lines 47-49
add_folder_to_monitor_any_entry(folder_path, size_limit_mb) ==
    /\ walk.pc = "idle"
    /\ loop.pc = "idle"
    /\ IF ~os_path_exists(fs, folder_path)
       THEN /\ last' = Event("add_folder_to_monitor", folder_path, size_limit_mb, FALSE,
                             <<"Warning: Folder does not exist.">>)
            /\ UNCHANGED monitoring_config
       ELSE /\ monitoring_config' =
                   DictSet(monitoring_config, folder_path, size_limit_mb * 1024 * 1024)
            /\ last' = Event("add_folder_to_monitor", folder_path, size_limit_mb, TRUE,
                             <<"Added folder to monitoring">>)
    /\ UNCHANGED <<fs, alerts_triggered, walk, loop>>

add_folder_to_monitor(folder_path, size_limit_mb) ==
    /\ walk.pc = "idle"
    /\ loop.pc = "idle"
    /\ IF ~os_path_exists(fs, folder_path)
       THEN /\ last' = Event("add_folder_to_monitor", folder_path, size_limit_mb, FALSE,
                             <<"Warning: Folder does not exist.">>)
            /\ UNCHANGED monitoring_config
       ELSE IF ~os_path_isdir(fs, folder_path)
       THEN /\ last' = Event("add_folder_to_monitor", folder_path, size_limit_mb, FALSE,
                             <<"Warning: is not a directory.">>)
            /\ UNCHANGED monitoring_config
       ELSE /\ monitoring_config' =
                   DictSet(monitoring_config, folder_path, size_limit_mb * 1024 * 1024)
            /\ last' = Event("add_folder_to_monitor", folder_path, size_limit_mb, TRUE,
                             <<"Added folder to monitoring">>)
    /\ UNCHANGED <<fs, alerts_triggered, walk, loop>>

\* a removal that also forgets the alerts recorded for the folder
remove_folder_from_monitor_forgetting(folder_path) ==
    /\ walk.pc = "idle"
    /\ loop.pc = "idle"
    /\ HasKey(monitoring_config, folder_path)
    /\ monitoring_config' = DictDel(monitoring_config, folder_path)
    /\ alerts_triggered' =
           SelectSeq(alerts_triggered, LAMBDA a : a.violation.folder_path # folder_path)
    /\ last' = Event("remove_folder_from_monitor", folder_path, 0, TRUE,
                     <<"Removed folder from monitoring">>)
    /\ UNCHANGED <<fs, walk, loop>>

remove_folder_from_monitor(folder_path) ==
    /\ walk.pc = "idle"
    /\ loop.pc = "idle"
    /\ IF HasKey(monitoring_config, folder_path)
       THEN /\ monitoring_config' = DictDel(monitoring_config, folder_path)
            /\ last' = Event("remove_folder_from_monitor", folder_path, 0, TRUE,
                             <<"Removed folder from monitoring">>)
       ELSE /\ last' = Event("remove_folder_from_monitor", folder_path, 0, FALSE,
                             <<"Folder is not being monitored">>)
            /\ UNCHANGED monitoring_config
    /\ UNCHANGED <<fs, alerts_triggered, walk, loop>>

\* a check that also records an alert for each violation it finds
CheckFolderLimits_alerting ==
    /\ walk.pc = "idle"
    /\ loop.pc = "idle"
    /\ LET run == check_run(monitoring_config, fs)
       IN  /\ Len(alerts_triggered) + Len(run.violations) <= MaxAlerts
           /\ last' = Event("check_folder_limits", "", 0, run.violations, run.out)
           /\ alerts_triggered' = trigger_all(alerts_triggered, run.violations)
    /\ UNCHANGED <<fs, monitoring_config, walk, loop>>

CheckFolderLimits ==
    /\ walk.pc = "idle"
    /\ loop.pc = "idle"
    /\ LET run == check_run(monitoring_config, fs)
       IN  last' = IF run.raised # ""
                   THEN Thrown("check_folder_limits", run.raised, run.out)
                   ELSE Event("check_folder_limits", "", 0, run.violations, run.out)
    /\ UNCHANGED <<fs, monitoring_config, alerts_triggered, walk, loop>>

\* the violations a caller hands to trigger_alert: those check_folder_limits gave it
TriggerInputs == Range(check_folder_limits(monitoring_config, fs))

TriggerAlert ==
    /\ walk.pc = "idle"
    /\ loop.pc = "idle"
    /\ Len(alerts_triggered) < MaxAlerts
    /\ \E violation \in TriggerInputs :
          /\ alerts_triggered' = trigger_alert(alerts_triggered, violation)
          /\ last' = Event("trigger_alert", violation.folder_path, 0, "none",
                           <<"FOLDER SIZE ALERT">>)
    /\ UNCHANGED <<fs, monitoring_config, walk, loop>>

\* the empty watch-list not told apart
no_folders_unchecked(cfg) == FALSE

\* line 184: not self.monitoring_config
no_folders(cfg) == cfg = <<>>

\* a single violation taken for none
any_violations_plural(violations) == Len(violations) > 1

\* line 190: if violations
any_violations(violations) == violations # <<>>

\* the body of monitor_once: what it prints and returns, the alerts it records
monitor_once_call ==
    /\ IF no_folders(monitoring_config)
       THEN /\ last' = Event("monitor_once", "", 0, FALSE,
                             <<"No folders configured for monitoring.">>)
            /\ UNCHANGED alerts_triggered
       ELSE LET run == check_run(monitoring_config, fs)
                violations == run.violations
            IN  IF run.raised # ""
                THEN /\ last' = Thrown("monitor_once", run.raised, run.out)
                     /\ UNCHANGED alerts_triggered
                ELSE IF any_violations(violations)
                THEN /\ Len(alerts_triggered) + Len(violations) <= MaxAlerts
                     /\ alerts_triggered' = trigger_all(alerts_triggered, violations)
                     /\ last' = Event("monitor_once", "", 0, TRUE,
                                      run.out \o <<"Found folder size violation(s):">>
                                      \o [i \in 1 .. Len(violations) |-> "FOLDER SIZE ALERT"])
                ELSE /\ last' = Event("monitor_once", "", 0, FALSE,
                                      run.out \o
                                      <<"All monitored folders are within their size limits.">>)
                     /\ UNCHANGED alerts_triggered

monitor_once ==
    /\ walk.pc = "idle"
    /\ loop.pc = "idle"
    /\ monitor_once_call
    /\ UNCHANGED <<fs, monitoring_config, walk, loop>>

\* a status call that drops from the watch-list the entries it cannot measure
GetMonitoringStatus_pruning ==
    /\ walk.pc = "idle"
    /\ loop.pc = "idle"
    /\ last' = Event("get_monitoring_status", "", 0,
                     get_monitoring_status(monitoring_config, alerts_triggered, fs), <<>>)
    /\ monitoring_config' =
           SelectSeq(monitoring_config, LAMBDA e : get_folder_size(fs, e.path).ok)
    /\ UNCHANGED <<fs, alerts_triggered, walk, loop>>

GetMonitoringStatus ==
    /\ walk.pc = "idle"
    /\ loop.pc = "idle"
    /\ LET run == status_run(monitoring_config, fs)
       IN  last' = IF run.raised # ""
                   THEN Thrown("get_monitoring_status", run.raised, <<>>)
                   ELSE Event("get_monitoring_status", "", 0,
                              get_monitoring_status(monitoring_config, alerts_triggered, fs),
                              <<>>)
    /\ UNCHANGED <<fs, monitoring_config, alerts_triggered, walk, loop>>

-----------------------------------------------------------------------------
(* The engine specification *)

\* FolderMonitor(monitoring_config): nothing, or a dict handed in unvalidated
InitConfigs == {<<>>, <<[path |-> "/b", limit |-> 0]>>}

Init ==
    /\ fs = EmptyFs
    /\ monitoring_config \in InitConfigs
    /\ alerts_triggered = <<>>
    /\ last = Event("init", "", 0, "none", <<>>)
    /\ walk = NoWalk
    /\ loop = NoLoop

Env(nodes) ==
    \/ \E n \in nodes, sz \in FileSizes : FsWriteFile(n, sz)
    \/ \E n \in nodes : FsMkdir(n)
    \/ \E n \in nodes : FsRemove(n)

Next ==
    \/ Env(FlatNodes)
    \/ \E p \in Roots, mb \in LimitMbInputs : add_folder_to_monitor(p, mb)
    \/ \E p \in Roots : remove_folder_from_monitor(p)
    \/ CheckFolderLimits
    \/ TriggerAlert
    \/ monitor_once
    \/ GetMonitoringStatus

Spec == Init /\ [][Next]_vars

-----------------------------------------------------------------------------
(* get_folder_size one system call at a time, the environment free to      *)
(* change the tree between any two of them.  listed, skipped and seen      *)
(* record what the call was shown: the files a listing named, the files    *)
(* whose size could not be read, and the <<file, size>> pairs read.        *)

WalkIdle == walk.pc \in {"idle", "done"}

WalkReturns(w, ret) ==
    /\ walk' = [w EXCEPT !.pc = "done"]
    /\ last' = Event("get_folder_size", w.path, 0, ret, <<>>)

\* get_folder_size entered without the os.path.exists test of lines 87-88
WalkCall_unchecked(folder_path) ==
    /\ WalkIdle
    /\ walk' = [NoWalk EXCEPT !.path = folder_path, !.pc = "isdir"]
    /\ last' = Event("call", folder_path, 0, "none", <<>>)
    /\ UNCHANGED <<fs, monitoring_config, alerts_triggered, loop>>

\* line 87: os.path.exists(folder_path)
WalkCall(folder_path) ==
    /\ WalkIdle
    /\ LET w == [NoWalk EXCEPT !.path = folder_path]
       IN  IF ~os_path_exists(fs, folder_path)
           THEN WalkReturns(w, Raise("does not exist"))
           ELSE /\ walk' = [w EXCEPT !.pc = "isdir"]
                /\ last' = Event("call", folder_path, 0, "none", <<>>)
    /\ UNCHANGED <<fs, monitoring_config, alerts_triggered, loop>>

\* line 89: os.path.isdir(folder_path)
WalkIsDir ==
    /\ walk.pc = "isdir"
    /\ IF ~os_path_isdir(fs, walk.path)
       THEN WalkReturns(walk, Raise("is not a directory"))
       ELSE /\ walk' = [walk EXCEPT !.pc = "next", !.stack = <<walk.path>>]
            /\ UNCHANGED last
    /\ UNCHANGED <<fs, monitoring_config, alerts_triggered, loop>>

\* a listing that does not descend: the subdirectories are left out
WalkListDir_top_only ==
    /\ walk.pc = "next"
    /\ walk.stack # <<>>
    /\ LET d == Head(walk.stack)
           files == filenames(fs, d)
       IN  IF ~os_path_isdir(fs, d)
           THEN walk' = [walk EXCEPT !.stack = Tail(@)]
           ELSE walk' = [walk EXCEPT !.stack = Tail(@),
                                     !.files = files,
                                     !.listed = @ \cup Range(files),
                                     !.pc = IF files = <<>> THEN "next" ELSE "file"]
    /\ UNCHANGED <<fs, monitoring_config, alerts_triggered, last, loop>>

\* line 94: os.walk lists the next directory; one it cannot list is passed over
WalkListDir ==
    /\ walk.pc = "next"
    /\ walk.stack # <<>>
    /\ LET d == Head(walk.stack)
           files == filenames(fs, d)
       IN  IF ~os_path_isdir(fs, d)
           THEN walk' = [walk EXCEPT !.stack = Tail(@)]
           ELSE walk' = [walk EXCEPT !.stack = dirnames(fs, d) \o Tail(@),
                                     !.files = files,
                                     !.listed = @ \cup Range(files),
                                     !.pc = IF files = <<>> THEN "next" ELSE "file"]
    /\ UNCHANGED <<fs, monitoring_config, alerts_triggered, last, loop>>

\* the file at the head of the listing is dealt with
FileDone(w) == [w EXCEPT !.files = Tail(@),
                         !.pc = IF Tail(w.files) = <<>> THEN "next" ELSE "file"]

\* line 98: os.path.exists(file_path)
WalkFileExists ==
    /\ walk.pc = "file"
    /\ IF os_path_exists(fs, Head(walk.files))
       THEN walk' = [walk EXCEPT !.pc = "getsize"]
       ELSE walk' = FileDone([walk EXCEPT !.skipped = @ \cup {Head(walk.files)}])
    /\ UNCHANGED <<fs, monitoring_config, alerts_triggered, last, loop>>

\* os.path.getsize outside the try of lines 97-102: its OSError ends the call
WalkGetSize_uncaught ==
    /\ walk.pc = "getsize"
    /\ LET file_path == Head(walk.files)
       IN  IF os_path_exists(fs, file_path)
           THEN /\ walk' = FileDone([walk EXCEPT
                            !.total = @ + os_path_getsize(fs, file_path),
                            !.seen = @ \cup {<<file_path, os_path_getsize(fs, file_path)>>}])
                /\ UNCHANGED last
           ELSE WalkReturns([walk EXCEPT !.skipped = @ \cup {file_path}],
                            Raise("No such file or directory"))
    /\ UNCHANGED <<fs, monitoring_config, alerts_triggered, loop>>

\* lines 99-102: os.path.getsize(file_path), an OSError caught and the file skipped
WalkGetSize ==
    /\ walk.pc = "getsize"
    /\ LET file_path == Head(walk.files)
       IN  IF os_path_exists(fs, file_path)
           THEN walk' = FileDone([walk EXCEPT
                            !.total = @ + os_path_getsize(fs, file_path),
                            !.seen = @ \cup {<<file_path, os_path_getsize(fs, file_path)>>}])
           ELSE walk' = FileDone([walk EXCEPT !.skipped = @ \cup {file_path}])
    /\ UNCHANGED <<fs, monitoring_config, alerts_triggered, last, loop>>

\* line 104: return total_size
WalkReturn ==
    /\ walk.pc = "next"
    /\ walk.stack = <<>>
    /\ WalkReturns(walk, Ok(walk.total))
    /\ UNCHANGED <<fs, monitoring_config, alerts_triggered, loop>>

NextWalk ==
    \/ Env(DeepNodes)
    \/ \E p \in Roots : WalkCall(p)
    \/ WalkIsDir
    \/ WalkListDir
    \/ WalkFileExists
    \/ WalkGetSize
    \/ WalkReturn

SpecWalk == Init /\ [][NextWalk]_vars

-----------------------------------------------------------------------------
(* monitor_continuously, one statement of its loop at a time.  While it    *)
(* runs it holds the thread: no other method is called until it returns.   *)
(* notices and checks count the lines printed and the monitor_once calls   *)
(* completed; sleeps lists the argument of every time.sleep call made;     *)
(* stopped_at is the statement Ctrl+C arrived at; start_config and         *)
(* start_alerts are the watch-list and the alert history at the call.      *)

\* the check_interval values explored: a short one and the default
Intervals == {1, 60}

\* the folder whose content changes while the loop runs
LoopNodes == {"/b", "/b/f"}

\* a loop that sleeps before it checks
NextPc_sleep_first(pc) ==
    CASE pc = "notice" -> "sleep"
      [] pc = "sleep" -> "sleeping"
      [] pc = "sleeping" -> "check"
      [] pc = "check" -> "notice"

\* lines 210-213: the order of the statements of the while body
NextPc(pc) ==
    CASE pc = "notice" -> "check"
      [] pc = "check" -> "sleep"
      [] pc = "sleep" -> "sleeping"
      [] pc = "sleeping" -> "notice"

\* line 213: time.sleep(check_interval)
sleep_seconds(check_interval) == check_interval

\* lines 206-210: the two opening lines are printed and the loop is entered
monitor_continuously(check_interval) ==
    /\ walk.pc = "idle"
    /\ loop.pc = "idle"
    /\ loop' = [NoLoop EXCEPT !.pc = "notice", !.interval = check_interval,
                              !.start_config = monitoring_config,
                              !.start_alerts = alerts_triggered]
    /\ last' = Event("monitor_continuously", "", check_interval, "none",
                     <<"Starting continuous monitoring", "Press Ctrl+C to stop monitoring">>)
    /\ UNCHANGED <<fs, monitoring_config, alerts_triggered, walk>>

\* line 211
LoopNotice ==
    /\ loop.pc = "notice"
    /\ loop.notices < MaxIter
    /\ loop' = [loop EXCEPT !.pc = NextPc("notice"), !.notices = @ + 1]
    /\ last' = Event("print", "", 0, "none", <<"Checking folder sizes...">>)
    /\ UNCHANGED <<fs, monitoring_config, alerts_triggered, walk>>

\* line 212
LoopCheck ==
    /\ loop.pc = "check"
    /\ monitor_once_call
    \* an exception leaving monitor_once is not a KeyboardInterrupt: it leaves the loop too
    /\ loop' = IF last'.exc # ""
               THEN [loop EXCEPT !.pc = "stopped", !.stopped_at = "check"]
               ELSE [loop EXCEPT !.pc = NextPc("check"), !.checks = @ + 1]
    /\ UNCHANGED <<fs, monitoring_config, walk>>

\* line 213: time.sleep is called
LoopSleep ==
    /\ loop.pc = "sleep"
    /\ loop' = [loop EXCEPT !.pc = NextPc("sleep"),
                            !.sleeps = Append(@, sleep_seconds(loop.interval))]
    /\ last' = Event("time.sleep", "", sleep_seconds(loop.interval), "none", <<>>)
    /\ UNCHANGED <<fs, monitoring_config, alerts_triggered, walk>>

\* line 213: time.sleep returns
LoopWake ==
    /\ loop.pc = "sleeping"
    /\ loop' = [loop EXCEPT !.pc = NextPc("sleeping")]
    /\ last' = Event("time.sleep returns", "", 0, "none", <<>>)
    /\ UNCHANGED <<fs, monitoring_config, alerts_triggered, walk>>

\* the alert histories a monitor_once call cut short by Ctrl+C can leave: the scan of
\* check_folder_limits records nothing, then the alerts are appended one at a time
Interrupted(cfg, alerts, f) ==
    LET violations == check_run(cfg, f).violations
    IN  {trigger_all(alerts, SubSeq(violations, 1, j)) : j \in 0 .. Len(violations)}

\* the try wrapped around time.sleep alone: Ctrl+C anywhere else leaves the method
KeyboardInterrupt_sleep_only ==
    /\ loop.pc \in {"notice", "check", "sleep", "sleeping"}
    /\ IF loop.pc = "sleeping"
       THEN /\ loop' = [loop EXCEPT !.pc = "stopped", !.stopped_at = loop.pc]
            /\ last' = Event("KeyboardInterrupt", "", 0, "none",
                             <<"Monitoring stopped by user.">>)
       ELSE /\ loop' = NoLoop
            /\ last' = Thrown("KeyboardInterrupt", "KeyboardInterrupt", <<>>)
    /\ UNCHANGED <<fs, monitoring_config, alerts_triggered, walk>>

\* lines 209, 215-216: Ctrl+C at a statement of the loop, during the sleep or inside
\* monitor_once; the handler prints the stop notice
KeyboardInterrupt ==
    /\ loop.pc \in {"notice", "check", "sleep", "sleeping"}
    /\ IF loop.pc = "check"
       THEN \E alerts \in Interrupted(monitoring_config, alerts_triggered, fs) :
                /\ Len(alerts) <= MaxAlerts
                /\ alerts_triggered' = alerts
       ELSE UNCHANGED alerts_triggered
    /\ loop' = [loop EXCEPT !.pc = "stopped", !.stopped_at = loop.pc]
    /\ last' = Event("KeyboardInterrupt", "", 0, "none", <<"Monitoring stopped by user.">>)
    /\ UNCHANGED <<fs, monitoring_config, walk>>

\* monitor_continuously returns to its caller
LoopReturn ==
    /\ loop.pc = "stopped"
    /\ loop' = NoLoop
    /\ last' = Event("monitor_continuously returns", "", 0, "none", <<>>)
    /\ UNCHANGED <<fs, monitoring_config, alerts_triggered, walk>>

NextLoop ==
    \/ Env(LoopNodes)
    \/ \E p \in Roots, mb \in LimitMbInputs : add_folder_to_monitor(p, mb)
    \/ \E p \in Roots : remove_folder_from_monitor(p)
    \/ CheckFolderLimits
    \/ TriggerAlert
    \/ monitor_once
    \/ GetMonitoringStatus
    \/ \E check_interval \in Intervals : monitor_continuously(check_interval)
    \/ LoopNotice
    \/ LoopCheck
    \/ LoopSleep
    \/ LoopWake
    \/ KeyboardInterrupt
    \/ LoopReturn

SpecLoop == Init /\ [][NextLoop]_vars

\* the engine used through monitor_once and monitor_continuously alone: no caller hands
\* trigger_alert a violation of its own
NextPasses ==
    \/ Env(LoopNodes)
    \/ \E p \in Roots, mb \in LimitMbInputs : add_folder_to_monitor(p, mb)
    \/ \E p \in Roots : remove_folder_from_monitor(p)
    \/ monitor_once
    \/ \E check_interval \in Intervals : monitor_continuously(check_interval)
    \/ LoopNotice
    \/ LoopCheck
    \/ LoopSleep
    \/ LoopWake
    \/ KeyboardInterrupt
    \/ LoopReturn

SpecPasses == Init /\ [][NextPasses]_vars

-----------------------------------------------------------------------------
(* Passes repeated over a watch-list and a file system that stand still:   *)
(* the engine is built with its watch-list, the folders hold what they     *)
(* hold, and only monitor_once and monitor_continuously run.               *)

\* what a folder holds: nothing, or one file
StillContents == {NoEntry} \cup {FileEntry(sz) : sz \in FileSizes}

\* the file systems the passes run on: both folders exist
StillFs ==
    {[n \in Nodes |-> IF n \in Roots THEN DirEntry
                      ELSE IF n = "/a/f" THEN x
                      ELSE IF n = "/b/f" THEN y
                      ELSE NoEntry] : x \in StillContents, y \in StillContents}

\* the limits of the watch-list, in bytes: 0 to MaxLimitMb MB
StillLimits == {mb * MB : mb \in 0 .. MaxLimitMb}

\* FolderMonitor(monitoring_config): one of the folders or both, in either order
StillConfigs ==
    {<<[path |-> p, limit |-> l]>> : p \in Roots, l \in StillLimits}
    \cup {cfg \in {<<[path |-> p, limit |-> l], [path |-> q, limit |-> m]>> :
                       p \in Roots, q \in Roots, l \in StillLimits, m \in StillLimits} :
              cfg[1].path # cfg[2].path}

InitRepeat ==
    /\ fs \in StillFs
    /\ monitoring_config \in StillConfigs
    /\ alerts_triggered = <<>>
    /\ last = Event("init", "", 0, "none", <<>>)
    /\ walk = NoWalk
    /\ loop = NoLoop

NextRepeat ==
    \/ monitor_once
    \/ \E check_interval \in Intervals : monitor_continuously(check_interval)
    \/ LoopNotice
    \/ LoopCheck
    \/ LoopSleep
    \/ LoopWake
    \/ KeyboardInterrupt
    \/ LoopReturn

SpecRepeat == InitRepeat /\ [][NextRepeat]_vars

-----------------------------------------------------------------------------
(* The limit handed to add_folder_to_monitor, by any caller of the class   *)
(* and by the menu of main.py, which reads it as a line of text.  The      *)
(* engine starts with an empty watch-list: every limit met comes from a    *)
(* call.                                                                   *)

\* the size_limit_mb values a caller passes: negative, zero, positive
AnyLimitMb == (0 - 1) .. MaxLimitMb

\* the lines typed at "Enter size limit in MB: "
LimitLines == {"", "abc"} \cup {ToString(n) : n \in AnyLimitMb}

\* int(size_limit_str) raises ValueError
ValueError(size_limit_str) == \A n \in AnyLimitMb : ToString(n) # size_limit_str

\* int(size_limit_str)
int(size_limit_str) == CHOOSE n \in AnyLimitMb : ToString(n) = size_limit_str

\* main.py lines 58-88: Main.add_folder_interactive
add_folder_interactive(folder_path, size_limit_str) ==
    IF folder_path = "" \/ size_limit_str = ""
    THEN /\ walk.pc = "idle"
         /\ loop.pc = "idle"
         /\ last' = Event("add_folder_interactive", folder_path, 0, "none", <<>>)
         /\ UNCHANGED <<fs, monitoring_config, alerts_triggered, walk, loop>>
    ELSE IF ValueError(size_limit_str)
    THEN /\ walk.pc = "idle"
         /\ loop.pc = "idle"
         /\ last' = Event("add_folder_interactive", folder_path, 0, "none",
                          <<"Error: Please enter a valid number for size limit.">>)
         /\ UNCHANGED <<fs, monitoring_config, alerts_triggered, walk, loop>>
    ELSE IF int(size_limit_str) <= 0
    THEN /\ walk.pc = "idle"
         /\ loop.pc = "idle"
         /\ last' = Event("add_folder_interactive", folder_path, int(size_limit_str),
                          "none", <<"Error: Size limit must be a positive number.">>)
         /\ UNCHANGED <<fs, monitoring_config, alerts_triggered, walk, loop>>
    ELSE add_folder_to_monitor(folder_path, int(size_limit_str))

\* FolderMonitor(): main.py builds the engine without a watch-list
InitLimits ==
    /\ fs = EmptyFs
    /\ monitoring_config = <<>>
    /\ alerts_triggered = <<>>
    /\ last = Event("init", "", 0, "none", <<>>)
    /\ walk = NoWalk
    /\ loop = NoLoop

NextLimits ==
    \/ Env(LoopNodes)
    \/ \E p \in Roots, mb \in AnyLimitMb : add_folder_to_monitor(p, mb)
    \/ \E p \in Roots \cup {""}, line \in LimitLines : add_folder_interactive(p, line)
    \/ \E p \in Roots : remove_folder_from_monitor(p)
    \/ CheckFolderLimits
    \/ monitor_once
    \/ GetMonitoringStatus

SpecLimits == InitLimits /\ [][NextLimits]_vars

-----------------------------------------------------------------------------
(* format_size on its own: a size is drawn, format_size is applied to it.  *)
(* Sizes from 1 TB on do not fit the integers of the model as byte counts; *)
(* they are drawn as a whole number of megabytes.                          *)

GB == 1024 * MB

\* the sizes less than Near away from a value
Around(n) == (n - Near) .. (n + Near)

\* byte counts: the smallest, those at the change of unit, those of the tests
ByteInputs ==
    (0 .. Near) \cup Around(1024) \cup Around(MB) \cup Around(GB)
        \cup {512, 1536, 1572864, 1610612736}

\* megabyte counts: those at the change of unit to TB and to PB, and the largest
MbInputs == {1, 1536} \cup Around(MB) \cup Around(GB) \cup {2 * (GB - 1) + 1}

FormatInputs ==
    [size : ByteInputs, in_mb : {FALSE}] \cup [size : MbInputs, in_mb : {TRUE}]

\* what format_size prints for an input, as value and unit
format_parts(input) ==
    IF input.in_mb THEN format_loop(input.size, 1, 3) ELSE format_loop(input.size, 1, 1)

InitPure ==
    /\ fs = EmptyFs
    /\ monitoring_config = <<>>
    /\ alerts_triggered = <<>>
    /\ last \in {Event("input", "", 0, input, <<>>) : input \in FormatInputs}
    /\ walk = NoWalk
    /\ loop = NoLoop

FormatSize ==
    /\ last.op = "input"
    /\ last' = Event("format_size", "", 0,
                     [input |-> last.ret,
                      text |-> IF last.ret.in_mb THEN format_size_of_mb(last.ret.size)
                               ELSE format_size(last.ret.size)],
                     <<>>)
    /\ UNCHANGED <<fs, monitoring_config, alerts_triggered, walk, loop>>

NextPure == FormatSize

SpecPure == InitPure /\ [][NextPure]_vars

-----------------------------------------------------------------------------
(* Properties of monitor_once and check_folder_limits, under Spec *)

\* C1: a monitor_once call during which check_folder_limits finds violations returns
\* True and leaves the alert history equal to the old history followed by one alert
\* per violation, in the order check_folder_limits returned them, each alert holding
\* its violation.
C1_AlertPerViolationInOrder ==
    [][(last'.op = "monitor_once" /\ check_folder_limits(monitoring_config, fs) # <<>>) =>
         LET violations == check_folder_limits(monitoring_config, fs)
             old == Len(alerts_triggered)
         IN  /\ last'.ret = TRUE
             /\ Len(alerts_triggered') = old + Len(violations)
             /\ \A i \in 1 .. old : alerts_triggered'[i] = alerts_triggered[i]
             /\ \A j \in 1 .. Len(violations) :
                    alerts_triggered'[old + j].violation = violations[j]]_vars

\* a pass that found two violations, of two folders, and recorded both
C1_Witness ==
    /\ last.op = "monitor_once"
    /\ last.ret = TRUE
    /\ Len(check_folder_limits(monitoring_config, fs)) = 2
    /\ Len(alerts_triggered) = 2
    /\ alerts_triggered[1].violation.folder_path # alerts_triggered[2].violation.folder_path

\* C2: check_folder_limits returns a violation for a watch-list entry exactly when the
\* entry's folder can be measured and its size is strictly greater than its limit; the
\* record carries the path, the measured size, the stored limit and their difference;
\* the violations come in watch-list order, at most one per entry.
C2_ViolationIffOverLimit ==
    last.op = "check_folder_limits" =>
        LET violations == last.ret
            cfg == monitoring_config
        IN  /\ \A i \in 1 .. Len(cfg) :
                   LET measured == get_folder_size(fs, cfg[i].path)
                   IN  (measured.ok /\ measured.size > cfg[i].limit)
                       <=> (\E j \in 1 .. Len(violations) :
                                violations[j].folder_path = cfg[i].path)
            /\ \A j \in 1 .. Len(violations) :
                   /\ HasKey(cfg, violations[j].folder_path)
                   /\ violations[j].current_size =
                          get_folder_size(fs, violations[j].folder_path).size
                   /\ violations[j].size_limit = Lookup(cfg, violations[j].folder_path)
                   /\ violations[j].excess_size =
                          violations[j].current_size - violations[j].size_limit
            /\ \A j, k \in 1 .. Len(violations) :
                   j < k => IndexOf(cfg, violations[j].folder_path)
                            < IndexOf(cfg, violations[k].folder_path)

\* one entry exactly at its limit and passed over, another over its limit and reported
C2_Witness ==
    /\ last.op = "check_folder_limits"
    /\ Len(monitoring_config) = 2
    /\ Len(last.ret) = 1
    /\ last.ret[1].excess_size = MB
    /\ \E i \in 1 .. 2 :
           /\ monitoring_config[i].limit > 0
           /\ get_folder_size(fs, monitoring_config[i].path) = Ok(monitoring_config[i].limit)

\* C3: monitor_once on an empty watch-list returns False, reports only that no folder is
\* configured (check_folder_limits does not run), and leaves the alert history and the
\* empty watch-list as they were.
C3_EmptyWatchListNoop ==
    [][(last'.op = "monitor_once" /\ monitoring_config = <<>>) =>
         /\ last'.ret = FALSE
         /\ last'.out = <<"No folders configured for monitoring.">>
         /\ alerts_triggered' = alerts_triggered
         /\ monitoring_config' = <<>>]_vars

\* the call made with no folder left and alerts already in the history
C3_Witness ==
    /\ last.op = "monitor_once"
    /\ monitoring_config = <<>>
    /\ last.ret = FALSE
    /\ Len(alerts_triggered) > 0

\* C4: with a non-empty watch-list monitor_once returns True exactly when
\* check_folder_limits returns a violation; when it returns none the call returns
\* False and the alert history is unchanged.
C4_ReturnsTrueIffViolations ==
    [][(last'.op = "monitor_once" /\ monitoring_config # <<>>) =>
         /\ last'.ret = (check_folder_limits(monitoring_config, fs) # <<>>)
         /\ (check_folder_limits(monitoring_config, fs) = <<>> =>
                 /\ alerts_triggered' = alerts_triggered
                 /\ last'.out[Len(last'.out)] =
                        "All monitored folders are within their size limits.")]_vars

\* a quiet pass over one folder within its limit and one that cannot be measured
C4_Witness ==
    /\ last.op = "monitor_once"
    /\ last.ret = FALSE
    /\ Len(monitoring_config) = 2
    /\ \E i, j \in 1 .. 2 :
           /\ ~get_folder_size(fs, monitoring_config[i].path).ok
           /\ get_folder_size(fs, monitoring_config[j].path).ok
           /\ get_folder_size(fs, monitoring_config[j].path).size > 0
    /\ Len(alerts_triggered) > 0

-----------------------------------------------------------------------------
(* Properties of add_folder_to_monitor and remove_folder_from_monitor, under Spec *)

\* C5: add_folder_to_monitor on a path that is a directory returns True and leaves the
\* watch-list mapping the path to size_limit_mb * 1024 * 1024, as a new entry or in
\* place of the path's previous limit; every other entry keeps its limit and its
\* place, the alert history is unchanged, and re-registering a path leaves the number
\* of entries as it was.
C5_AddStoresLimitInBytes ==
    [][(last'.op = "add_folder_to_monitor" /\ os_path_isdir(fs, last'.path)) =>
         LET p == last'.path
             cfg == monitoring_config
             new == monitoring_config'
         IN  /\ last'.ret = TRUE
             /\ HasKey(new, p)
             /\ Lookup(new, p) = last'.mb * 1024 * 1024
             /\ Keys(new) = Keys(cfg) \cup {p}
             /\ Cardinality(Keys(new)) = Len(new)
             /\ \A i \in 1 .. Len(cfg) : cfg[i].path # p => new[i] = cfg[i]
             /\ HasKey(cfg, p) => Len(new) = Len(cfg) /\ IndexOf(new, p) = IndexOf(cfg, p)
             /\ ~HasKey(cfg, p) => Len(new) = Len(cfg) + 1 /\ IndexOf(new, p) = Len(new)
             /\ alerts_triggered' = alerts_triggered]_vars

\* a path registered again: it stands before an entry added after it, under the new limit
C5_Witness ==
    /\ last.op = "add_folder_to_monitor"
    /\ last.ret = TRUE
    /\ Len(monitoring_config) = 2
    /\ monitoring_config[1] = [path |-> last.path, limit |-> MB]
    /\ Len(alerts_triggered) > 0

\* C6: add_folder_to_monitor on a path that does not exist, or that exists but is not a
\* directory, returns False, tells which of the two tests failed, and leaves the
\* watch-list (an entry already held for that path included) and the alert history
\* unchanged.
C6_AddRejectsNonDirectory ==
    [][(last'.op = "add_folder_to_monitor" /\ ~os_path_isdir(fs, last'.path)) =>
         /\ last'.ret = FALSE
         /\ last'.out = IF os_path_exists(fs, last'.path)
                        THEN <<"Warning: is not a directory.">>
                        ELSE <<"Warning: Folder does not exist.">>
         /\ monitoring_config' = monitoring_config
         /\ alerts_triggered' = alerts_triggered]_vars

\* a watched path that has become a file is registered again and refused
C6_Witness ==
    /\ last.op = "add_folder_to_monitor"
    /\ last.ret = FALSE
    /\ fs[last.path].kind = "file"
    /\ HasKey(monitoring_config, last.path)
    /\ Lookup(monitoring_config, last.path) = 0

\* C7: remove_folder_from_monitor returns True exactly when the path is a key of the
\* watch-list, and then removes that entry alone, the others keeping their limits and
\* their order; for an absent key it returns False and the watch-list is unchanged.
\* The alert history is unchanged either way, and the file system is not consulted.
C7_RemoveExactlyThatEntry ==
    [][last'.op = "remove_folder_from_monitor" =>
         LET p == last'.path
             cfg == monitoring_config
             new == monitoring_config'
         IN  /\ last'.ret = HasKey(cfg, p)
             /\ ~HasKey(new, p)
             /\ new = SelectSeq(cfg, LAMBDA e : e.path # p)
             /\ HasKey(cfg, p) => Len(new) = Len(cfg) - 1
             /\ ~HasKey(cfg, p) => new = cfg
             /\ alerts_triggered' = alerts_triggered
             /\ fs' = fs]_vars

\* the second of two entries removed after its folder was deleted, the first one staying
C7_Witness ==
    /\ last.op = "remove_folder_from_monitor"
    /\ last.ret = TRUE
    /\ ~os_path_exists(fs, last.path)
    /\ Len(monitoring_config) = 1
    /\ last.path = "/a"
    /\ monitoring_config[1].limit = 0
    /\ Len(alerts_triggered) > 0

-----------------------------------------------------------------------------
(* Properties of get_folder_size, under SpecWalk *)

RECURSIVE SumOver(_, _)
\* the sum of the sizes f gives the files of the set S
SumOver(f, S) ==
    IF S = {} THEN 0
    ELSE LET n == CHOOSE n \in S : TRUE
         IN  f[n].size + SumOver(f, S \ {n})

\* the regular files anywhere below d
FilesBelow(f, d) == {n \in Nodes : IsUnder(n, d) /\ f[n].kind = "file"}

RECURSIVE SumPairs(_)
\* the sum of the sizes in a set of <<file, size>> pairs
SumPairs(S) ==
    IF S = {} THEN 0
    ELSE LET e == CHOOSE e \in S : TRUE
         IN  e[2] + SumPairs(S \ {e})

\* C8: get_folder_size of an existing directory, the tree standing still during the
\* call, returns the sum of the sizes of all regular files anywhere below it, each
\* counted once, whatever their depth; 0 when there is none.  The walk taken step by
\* step and the walk taken in one go agree on it.
C8_SizeIsSumOfSubtreeFiles ==
    (walk.pc = "done" /\ ~walk.disturbed /\ os_path_isdir(fs, walk.path)) =>
        /\ last.ret = Ok(SumOver(fs, FilesBelow(fs, walk.path)))
        /\ get_folder_size(fs, walk.path) = last.ret
        /\ walk.listed = FilesBelow(fs, walk.path)
        /\ {e[1] : e \in walk.seen} = walk.listed
        /\ Cardinality(walk.seen) = Cardinality(walk.listed)

\* files at three depths, of different sizes, all counted
C8_Witness ==
    /\ walk.pc = "done"
    /\ ~walk.disturbed
    /\ walk.path = "/a"
    /\ fs["/a/f"] = FileEntry(MB)
    /\ fs["/a/s/g"] = FileEntry(2 * MB)
    /\ fs["/a/s/t/h"] = FileEntry(2 * MB)
    /\ last.ret = Ok(5 * MB)

\* C9: get_folder_size raises "does not exist" for a path that does not exist and "is
\* not a directory" for one that exists but is no directory (the path standing still
\* during the call); it raises before anything is listed or read, and the watch-list
\* and the alert history are as before.
C9_RaisesBeforeTraversal ==
    [][last'.op = "get_folder_size" =>
         /\ ~walk'.disturbed =>
                /\ ~os_path_exists(fs, last'.path) => last'.ret = Raise("does not exist")
                /\ (os_path_exists(fs, last'.path) /\ ~os_path_isdir(fs, last'.path)) =>
                       last'.ret = Raise("is not a directory")
                /\ ~os_path_isdir(fs, last'.path) =>
                       last'.ret = get_folder_size(fs, last'.path)
         /\ ~last'.ret.ok =>
                /\ walk'.listed = {} /\ walk'.seen = {} /\ walk'.total = 0
                /\ last'.ret.err \in {"does not exist", "is not a directory"}
         /\ monitoring_config' = monitoring_config
         /\ alerts_triggered' = alerts_triggered
         /\ fs' = fs]_vars

\* the call on a path that holds a file
C9_Witness ==
    /\ walk.pc = "done"
    /\ ~walk.disturbed
    /\ fs[walk.path].kind = "file"
    /\ last.ret = Raise("is not a directory")

Unmeasurable(cfg, f) == SelectSeq(cfg, LAMBDA e : ~get_folder_size(f, e.path).ok)

\* the watch-list entries whose folder can be measured and is over its limit
Exceeding(cfg, f) ==
    SelectSeq(cfg, LAMBDA e : LET measured == get_folder_size(f, e.path)
                              IN  measured.ok /\ measured.size > e.limit)

\* C11: check_folder_limits passes over an entry whose measurement fails, printing one
\* diagnostic for it, and goes on: every entry before and after it in watch-list order
\* is still measured, and the violations returned are those of all the measurable
\* entries over their limit, in watch-list order.
C11_FailingEntrySkippedOthersChecked ==
    last.op = "check_folder_limits" =>
        /\ last.exc = ""
        /\ LET failing == Unmeasurable(monitoring_config, fs)
               over == Exceeding(monitoring_config, fs)
           IN  /\ last.out = [i \in 1 .. Len(failing) |->
                                 "Error checking folder " \o failing[i].path]
               /\ [j \in 1 .. Len(last.ret) |-> last.ret[j].folder_path]
                      = [j \in 1 .. Len(over) |-> over[j].path]

\* the first entry's folder is gone, the second entry is over its limit and reported
C11_Witness ==
    /\ last.op = "check_folder_limits"
    /\ Len(monitoring_config) = 2
    /\ ~get_folder_size(fs, monitoring_config[1].path).ok
    /\ Len(last.out) = 1
    /\ Len(last.ret) = 1
    /\ last.ret[1].folder_path = monitoring_config[2].path

C13_StatusReportsErrorEntry ==
    last.op = "get_monitoring_status" =>
        /\ last.exc = ""
        /\ Len(last.ret.folders) = Len(monitoring_config)
        /\ \A i \in 1 .. Len(monitoring_config) :
               LET info == last.ret.folders[i]
                   measured == get_folder_size(fs, monitoring_config[i].path)
               IN  /\ info.path = monitoring_config[i].path
                   /\ IF measured.ok
                      THEN /\ DOMAIN info =
                                  {"path", "current_size", "current_size_formatted",
                                   "size_limit", "size_limit_formatted",
                                   "usage_percentage", "is_over_limit"}
                           /\ info.current_size = measured.size
                      ELSE /\ DOMAIN info = {"path", "error"}
                           /\ info.error = measured.err

\* a status of two entries: one folder is gone, the other is measured and holds content
C13_Witness ==
    /\ last.op = "get_monitoring_status"
    /\ Len(monitoring_config) = 2
    /\ \E i, j \in 1 .. 2 :
           /\ DOMAIN last.ret.folders[i] = {"path", "error"}
           /\ last.ret.folders[i].error = "does not exist"
           /\ "current_size" \in DOMAIN last.ret.folders[j]
           /\ last.ret.folders[j].current_size > 0

\* C14: get_monitoring_status only reads: in every state, those where some entries cannot
\* be measured included, the watch-list and the alert history after the call are the
\* ones before it.
C14_StatusIsReadOnly ==
    [][last'.op = "get_monitoring_status"
          => /\ monitoring_config' = monitoring_config
             /\ alerts_triggered' = alerts_triggered]_vars

\* a status call in a state with an alert in the history and an entry that fails
C14_Witness ==
    /\ last.op = "get_monitoring_status"
    /\ Len(alerts_triggered) >= 1
    /\ \E i \in 1 .. Len(monitoring_config) :
           /\ ~get_folder_size(fs, monitoring_config[i].path).ok
           /\ "error" \in DOMAIN last.ret.folders[i]

\* C15: check_folder_limits returns every violation and changes neither the alert history
\* nor the watch-list; the alert history changes only in a trigger_alert call, made
\* directly or by monitor_once.
C15_CheckDoesNotAlert ==
    [][/\ last'.op = "check_folder_limits"
          => /\ Len(last'.ret) = Len(Exceeding(monitoring_config, fs))
             /\ alerts_triggered' = alerts_triggered
             /\ monitoring_config' = monitoring_config
       /\ alerts_triggered' # alerts_triggered
          => last'.op \in {"trigger_alert", "monitor_once"}]_vars

\* check_folder_limits has returned a violation and the alert history is still empty
C15_Witness ==
    /\ last.op = "check_folder_limits"
    /\ Len(last.ret) >= 1
    /\ alerts_triggered = <<>>

-----------------------------------------------------------------------------
(* Properties of the alert history and of the loop, under SpecLoop *)

IsPrefix(s, t) == Len(s) <= Len(t) /\ SubSeq(t, 1, Len(s)) = s

\* the alert lines among the lines a call printed
AlertLines(out) == SelectSeq(out, LAMBDA line : line = "FOLDER SIZE ALERT")

\* C16: the alert history only grows: across every step (adding or removing a folder, a
\* check, an alert, a monitor_once call, a step of the monitor_continuously loop, a status
\* call, a change of the file system) the history before is a prefix of the history
\* after.  Only trigger_alert extends it, by one record per call: a direct call adds one,
\* monitor_once adds one per alert it raises, a monitor_once cut short by Ctrl+C one per
\* alert it had raised by then.  Removing a folder removes no past alert.
C16_AlertHistoryAppendOnly ==
    [][/\ IsPrefix(alerts_triggered, alerts_triggered')
       /\ alerts_triggered' # alerts_triggered
          => \/ last'.op \in {"trigger_alert", "monitor_once"}
             \/ last'.op = "KeyboardInterrupt" /\ loop.pc = "check"
       /\ last'.op = "KeyboardInterrupt"
          => alerts_triggered' \in Interrupted(monitoring_config, alerts_triggered, fs)
       /\ last'.op = "trigger_alert"
          => Len(alerts_triggered') = Len(alerts_triggered) + 1
       /\ last'.op = "monitor_once"
          => Len(alerts_triggered') = Len(alerts_triggered) + Len(AlertLines(last'.out))
       /\ last'.op = "remove_folder_from_monitor"
          => alerts_triggered' = alerts_triggered]_vars

\* a folder has just been removed from the watch-list and the alerts recorded for it
\* are still in the history
C16_Witness ==
    /\ last.op = "remove_folder_from_monitor"
    /\ last.ret = TRUE
    /\ Len(alerts_triggered) = MaxAlerts
    /\ \A i \in 1 .. Len(alerts_triggered) :
           alerts_triggered[i].violation.folder_path = last.path

-----------------------------------------------------------------------------
(* Properties of the status figures, under Spec *)

\* C17: get_monitoring_status never divides by zero.  An entry whose limit is 0 gets
\* usage_percentage 0; an entry whose limit is positive gets current_size / size_limit
\* * 100, which for a folder of 1024 bytes under a limit of 10 MB lies strictly between
\* 0 and 1.  is_over_limit is true exactly when current_size > size_limit, so a
\* zero-limit entry holding content is over its limit while its percentage reads 0.
C17_UsagePercentageGuarded ==
    /\ LET p == usage_percentage(1024, 10 * MB)
       IN  p.exc = "" /\ 0 < p.num /\ p.num < p.den
    /\ last.op = "get_monitoring_status" =>
           /\ last.exc = ""
           /\ \A i \in 1 .. Len(last.ret.folders) :
                  LET info == last.ret.folders[i]
                  IN  "error" \notin DOMAIN info =>
                          /\ info.usage_percentage.exc = ""
                          /\ info.size_limit = 0 =>
                                 /\ info.usage_percentage.num = 0
                                 /\ info.usage_percentage.den = 1
                          /\ info.size_limit > 0 =>
                                 /\ info.usage_percentage.num = info.current_size * 100
                                 /\ info.usage_percentage.den = info.size_limit
                          /\ info.is_over_limit <=> info.current_size > info.size_limit

\* a status with a zero-limit entry that holds content, over its limit at 0 percent,
\* next to an entry with a positive limit and a positive percentage
C17_Witness ==
    /\ last.op = "get_monitoring_status"
    /\ \E i, j \in 1 .. Len(last.ret.folders) :
           LET zero == last.ret.folders[i]
               other == last.ret.folders[j]
           IN  /\ "error" \notin DOMAIN zero
               /\ "error" \notin DOMAIN other
               /\ zero.size_limit = 0
               /\ zero.current_size > 0
               /\ zero.is_over_limit
               /\ zero.usage_percentage.num = 0
               /\ other.size_limit > 0
               /\ other.usage_percentage.num > 0

-----------------------------------------------------------------------------
(* Properties of format_size, under SpecPure *)

AllUnits == {"B", "KB", "MB", "GB", "TB", "PB"}

\* C18: for every non-negative size format_size returns "<number> <unit>" with the unit
\* one of B, KB, MB, GB, TB, PB, and the number, as printed with two decimals, is below
\* 1024 unless the unit is PB.
C18_PrintedNumberBelow1024 ==
    last.op = "format_size" =>
        LET v == format_parts(last.ret.input)
        IN  /\ last.ret.text = Fixed2(v.num, v.den) \o " " \o v.unit
            /\ v.unit \in AllUnits
            /\ v.unit # "PB" => Hundredths(v.num, v.den) < 1024 * 100

UnitOrder == <<"B", "KB", "MB", "GB", "TB", "PB">>

\* the number of divisions by 1024 that bring a size below 1024, five at most
Divisions(input) ==
    IF input.in_mb
    THEN IF input.size < 1024 THEN 2
         ELSE IF input.size < MB THEN 3
         ELSE IF input.size < GB THEN 4
         ELSE 5
    ELSE IF input.size < 1024 THEN 0
         ELSE IF input.size < MB THEN 1
         ELSE IF input.size < GB THEN 2
         ELSE 3

\* 1024 to the power k, for k from 0 to 3
Pow1024(k) == IF k = 0 THEN 1 ELSE IF k = 1 THEN 1024 ELSE IF k = 2 THEN MB ELSE GB

\* C19: format_size picks the unit by dividing by 1024 again and again: the unit is the
\* one at place k of B, KB, MB, GB, TB, PB, k being the number of divisions that bring
\* the value below 1024, and never more than 5 (PB); the number printed is the size
\* over 1024^k with two decimals.  format_size(512) is "512.00 B", format_size(1536) is
\* "1.50 KB", format_size(1572864) is "1.50 MB", format_size(1610612736) is "1.50 GB".
\* The result depends on the size alone and the engine's state is not touched.
C19_UnitByRepeatedDivision ==
    /\ format_size(512) = "512.00 B"
    /\ format_size(1536) = "1.50 KB"
    /\ format_size(1572864) = "1.50 MB"
    /\ format_size(1610612736) = "1.50 GB"
    /\ last.op = "format_size" =>
           LET input == last.ret.input
               k == Divisions(input)
               \* a size given in megabytes has been divided twice already
               den == Pow1024(IF input.in_mb THEN k - 2 ELSE k)
           IN  /\ last.ret.text = Fixed2(input.size, den) \o " " \o UnitOrder[k + 1]
               /\ monitoring_config = <<>>
               /\ alerts_triggered = <<>>
               /\ fs = EmptyFs

\* format_size has been applied to 1.5 * 1024^3 bytes
C19_Witness ==
    /\ last.op = "format_size"
    /\ last.ret.input = [size |-> 1610612736, in_mb |-> FALSE]
    /\ last.ret.text = "1.50 GB"

\* C20: every pass of the monitor_continuously loop prints the checking notice, calls
\* monitor_once, then calls time.sleep with exactly the check_interval the caller gave,
\* in this order: the n-th sleep does not start before the n-th monitor_once has
\* returned, and the first monitor_once runs before any sleep.  Ctrl+C during the first
\* sleep leaves exactly one completed monitor_once and one sleep call, made with the
\* given interval.
C20_NoticeCheckSleepInOrder ==
    loop.pc # "idle" =>
        LET n == Len(loop.sleeps)
            at == IF loop.pc = "stopped" THEN loop.stopped_at ELSE loop.pc
        IN  /\ n <= loop.checks
            /\ loop.checks <= loop.notices
            /\ at = "notice" => loop.notices = n /\ loop.checks = n
            /\ at = "check" => loop.notices = n + 1 /\ loop.checks = n
            /\ at = "sleep" => loop.notices = n + 1 /\ loop.checks = n + 1
            /\ at = "sleeping" => loop.notices = n /\ loop.checks = n /\ n >= 1
            /\ \A i \in 1 .. n : loop.sleeps[i] = loop.interval
            /\ (loop.pc = "stopped" /\ at = "sleeping" /\ n = 1)
               => loop.checks = 1 /\ loop.sleeps = <<loop.interval>>

\* monitor_continuously(1) stopped by Ctrl+C during its first sleep
C20_Witness ==
    /\ loop.pc = "stopped"
    /\ loop.stopped_at = "sleeping"
    /\ loop.interval = 1
    /\ loop.notices = 1
    /\ loop.checks = 1
    /\ loop.sleeps = <<1>>
    /\ last.op = "KeyboardInterrupt"

\* C21: monitor_continuously ends only by Ctrl+C: no step of the loop leaves it
\* otherwise.  Ctrl+C at any point of the loop (at a statement, during the sleep, inside
\* monitor_once while it scans or records alerts) is caught: the stop notice is printed,
\* nothing is raised to the caller, and the method then returns.  The watch-list is the
\* one the call started with and the alert history extends the one it started with.
C21_StopsOnlyOnInterrupt ==
    [][/\ (loop.pc # "stopped" /\ loop'.pc = "stopped")
          => /\ last'.op = "KeyboardInterrupt"
             /\ last'.exc = ""
             /\ last'.out = <<"Monitoring stopped by user.">>
       /\ last'.op = "KeyboardInterrupt" => loop'.pc = "stopped"
       /\ (loop.pc \in {"notice", "check", "sleep", "sleeping"}) => loop'.pc # "idle"
       /\ (loop.pc = "stopped" /\ loop'.pc = "idle")
          => /\ last'.op = "monitor_continuously returns"
             /\ last'.exc = ""
             /\ monitoring_config' = loop.start_config
             /\ IsPrefix(loop.start_alerts, alerts_triggered')
       /\ loop'.pc # "idle"
          => /\ monitoring_config' = loop'.start_config
             /\ IsPrefix(loop'.start_alerts, alerts_triggered')]_vars

\* Ctrl+C arrived inside the second monitor_once of the loop, after it had recorded an
\* alert: the loop has stopped with the first pass's alert and this one in the history
C21_Witness ==
    /\ loop.pc = "stopped"
    /\ loop.stopped_at = "check"
    /\ loop.checks = 1
    /\ last.op = "KeyboardInterrupt"
    /\ loop.start_alerts = <<>>
    /\ Len(alerts_triggered) = 2

-----------------------------------------------------------------------------
(* Properties of the limit of a watch-list entry, under SpecLimits *)

\* C22: a limit that is not positive, handed to add_folder_to_monitor, is rejected before
\* anything is stored: the call returns False and the watch-list stays as it was, so that
\* no sequence of add_folder_to_monitor calls leaves an entry whose limit is 0 or less.
C22_NonPositiveLimitRejected ==
    /\ (last.op = "add_folder_to_monitor" /\ last.mb <= 0) => last.ret = FALSE
    /\ \A i \in 1 .. Len(monitoring_config) : monitoring_config[i].limit > 0

-----------------------------------------------------------------------------
(* Further properties of the status and of the alerts, under Spec and SpecLoop *)

\* C23: get_monitoring_status returns exactly one record per watch-list entry, in
\* watch-list order, and takes its totals from the engine's state:
\* total_folders_monitored is the number of entries, which is also the number of records,
\* those with an error included, and total_alerts_triggered is the length of the alert
\* history.  With no entry and no alert it returns 0, an empty list and 0.
C23_StatusTotals ==
    last.op = "get_monitoring_status" =>
        /\ last.exc = ""
        /\ last.ret.total_folders_monitored = Len(monitoring_config)
        /\ Len(last.ret.folders) = Len(monitoring_config)
        /\ \A i \in 1 .. Len(monitoring_config) :
               last.ret.folders[i].path = monitoring_config[i].path
        /\ last.ret.total_alerts_triggered = Len(alerts_triggered)
        /\ (monitoring_config = <<>> /\ alerts_triggered = <<>>)
           => last.ret = [total_folders_monitored |-> 0, folders |-> <<>>,
                          total_alerts_triggered |-> 0]

\* a status of two entries, one of them reported with an error, after two alerts
C23_Witness ==
    /\ last.op = "get_monitoring_status"
    /\ last.ret.total_folders_monitored = 2
    /\ last.ret.total_alerts_triggered = 2
    /\ \E i \in 1 .. 2 : "error" \in DOMAIN last.ret.folders[i]

\* the records a step has added to the alert history
Added == SubSeq(alerts_triggered', Len(alerts_triggered) + 1, Len(alerts_triggered'))

\* C24: when alerts are raised through monitor_once and monitor_continuously only, every
\* record of the alert history holds a violation with current_size > size_limit and
\* excess_size = current_size - size_limit > 0, and when the pass that recorded it ran,
\* its folder_path was a key of the watch-list, its size_limit the limit stored under
\* that key, and its current_size the size the folder then had.
C24_AlertsAreViolations ==
    [][/\ \A i \in 1 .. Len(alerts_triggered') :
              LET violation == alerts_triggered'[i].violation
              IN  /\ violation.current_size > violation.size_limit
                  /\ violation.excess_size = violation.current_size - violation.size_limit
                  /\ violation.excess_size > 0
       /\ \A i \in 1 .. Len(Added) :
              LET violation == Added[i].violation
              IN  /\ HasKey(monitoring_config, violation.folder_path)
                  /\ violation.size_limit = Lookup(monitoring_config, violation.folder_path)
                  /\ get_folder_size(fs, violation.folder_path) = Ok(violation.current_size)]_vars

\* a pass of the loop has recorded an alert, and an earlier alert names a limit that the
\* watch-list no longer holds for its folder
C24_Witness ==
    /\ last.op = "monitor_once"
    /\ last.ret = TRUE
    /\ loop.pc = "sleep"
    /\ Len(alerts_triggered) = 2
    /\ HasKey(monitoring_config, alerts_triggered[1].violation.folder_path)
    /\ alerts_triggered[1].violation.size_limit
           # Lookup(monitoring_config, alerts_triggered[1].violation.folder_path)

\* the violation check_folder_limits returns for a path, as a set: empty if none
ViolationsFor(violations, folder_path) ==
    {violations[j] : j \in {k \in 1 .. Len(violations) :
                                violations[k].folder_path = folder_path}}

\* status and check agree on entry i of the watch-list
Agree(info, violations, out, folder_path) ==
    IF "error" \in DOMAIN info
    THEN /\ \E k \in 1 .. Len(out) : out[k] = "Error checking folder " \o folder_path
         /\ ViolationsFor(violations, folder_path) = {}
    ELSE /\ \A k \in 1 .. Len(out) : out[k] # "Error checking folder " \o folder_path
         /\ info.is_over_limit <=> ViolationsFor(violations, folder_path) # {}
         /\ \A violation \in ViolationsFor(violations, folder_path) :
                /\ violation.current_size = info.current_size
                /\ violation.size_limit = info.size_limit

\* C25: on the same watch-list and the same file system get_monitoring_status and
\* check_folder_limits agree: an entry has is_over_limit true in the status exactly when
\* the check returns a violation for it, with the same current_size and size_limit, and
\* the entries the status reports with an error are exactly those the check passes over.
C25_StatusAgreesWithCheck ==
    /\ last.op = "get_monitoring_status" =>
           LET run == check_run(monitoring_config, fs)
           IN  \A i \in 1 .. Len(monitoring_config) :
                   Agree(last.ret.folders[i], run.violations, run.out,
                         monitoring_config[i].path)
    /\ last.op = "check_folder_limits" =>
           LET folders == get_monitoring_status(monitoring_config, alerts_triggered, fs).folders
           IN  \A i \in 1 .. Len(monitoring_config) :
                   Agree(folders[i], last.ret, last.out, monitoring_config[i].path)

\* a status of two entries: one over its limit, one exactly at its limit and not over it
C25_Witness ==
    /\ last.op = "get_monitoring_status"
    /\ Len(last.ret.folders) = 2
    /\ \E i, j \in 1 .. 2 :
           /\ "error" \notin DOMAIN last.ret.folders[i]
           /\ "error" \notin DOMAIN last.ret.folders[j]
           /\ last.ret.folders[i].is_over_limit
           /\ ~last.ret.folders[j].is_over_limit
           /\ last.ret.folders[j].current_size = last.ret.folders[j].size_limit
           /\ Len(check_folder_limits(monitoring_config, fs)) = 1

-----------------------------------------------------------------------------
(* Property of repeated passes, under SpecRepeat *)

\* C26: alerts are not de-duplicated.  Every monitor_once pass, called directly or by the
\* monitor_continuously loop, records an alert for each folder over its limit, whether or
\* not the history already holds one for that folder: n passes in a row over a watch-list
\* and a file system that do not change, with k folders over their limit, add exactly
\* n * k records.
C26_EveryPassAlertsAgain ==
    [][/\ last'.op = "monitor_once"
          => LET over == Exceeding(monitoring_config, fs)
             IN  /\ last'.exc = ""
                 /\ Len(alerts_triggered') = Len(alerts_triggered) + Len(over)
                 /\ [i \in 1 .. Len(Added) |-> Added[i].violation.folder_path]
                        = [i \in 1 .. Len(over) |-> over[i].path]
       /\ (\/ loop'.pc \in {"notice", "check", "sleep", "sleeping"}
           \/ loop'.pc = "stopped" /\ loop'.stopped_at # "check")
          => Len(alerts_triggered') =
                 Len(loop'.start_alerts)
                 + loop'.checks * Len(Exceeding(monitoring_config', fs'))]_vars

\* the loop has made two passes over one folder that stays over its limit: two alerts for
\* the same folder
C26_Witness ==
    /\ loop.pc = "sleep"
    /\ loop.checks = 2
    /\ loop.start_alerts = <<>>
    /\ Len(alerts_triggered) = 2
    /\ alerts_triggered[1] = alerts_triggered[2]

====
